---------------------------- MODULE Spec2Model ----------------------------
(***************************************************************************)
(* The Workspace component (src/components/Workspace.tsx, lines 1-322),    *)
(* the UploadArea it renders while no document is loaded                   *)
(* (src/components/UploadArea.tsx) and the three service wrappers          *)
(* performOCR, analyzeLegalText and performDeepResearch                    *)
(* (src/unnamed/part_000), as one state machine.                           *)
(*                                                                         *)
(* One behaviour is the life of one mounted Workspace instance.  A step is *)
(* one run-to-completion piece of JavaScript: a DOM event handler up to    *)
(* its first await, or the continuation of an async function from the      *)
(* settlement of the promise it awaits up to its next await or its end.    *)
(* The file reader and the three calls of the external model are the       *)
(* environment: each pending call is settled by a step that draws its      *)
(* outcome from a finite set.                                              *)
(***************************************************************************)
EXTENDS Naturals, Sequences, FiniteSets, TLC

VARIABLES
  docContext,     \* useState<DocumentContext | null>, Workspace.tsx:9
  status,         \* useState<AnalysisStatus>, Workspace.tsx:10
  activeTab,      \* useState<'ANALYSIS' | 'RESEARCH'>, Workspace.tsx:11
  researchQuery,  \* useState(''), Workspace.tsx:12
  statusMessage,  \* useState(''), Workspace.tsx:13
  isDragging,     \* useState(false) of UploadArea, UploadArea.tsx:9
  clock,          \* the last value Date.now() returned
  pipelines,      \* the processFile invocations that have not finished
  researches,     \* the handleResearch invocations that have not finished
  runs,           \* how many times processFile has been invoked
  submitted,      \* the queries handed to performDeepResearch, in order
  everReady       \* status has been COMPLETED since docContext was created

vars == <<docContext, status, activeTab, researchQuery, statusMessage,
          isDragging, clock, pipelines, researches, runs, submitted,
          everReady>>

---------------------------------------------------------------------------
(* Bounds of the model. *)

\* processFile is invoked at most MaxRuns times.
MaxRuns == 2

\* performDeepResearch is called at most MaxCalls times.
MaxCalls == 2

\* Date.now() stays within 0..MaxClock.
MaxClock == 0

---------------------------------------------------------------------------
(* Values. *)

\* enum AnalysisStatus
AnalysisStatus ==
  {"IDLE", "PROCESSING_OCR", "PROCESSING_ANALYSIS", "PROCESSING_RESEARCH",
   "COMPLETED", "ERROR"}

\* docContext before any file was read: null
Null == [null |-> TRUE]

\* The files the user can select; bytes stands for the image content.
Files ==
  { [name |-> "escritura.png", type |-> "image/png", bytes |-> "img-1"],
    [name |-> "procuracao.jpg", type |-> "image/jpeg", bytes |-> "img-2"] }

\* What a drop or a file-input change can carry: no file, one, or several.
FileLists ==
  {<<>>} \cup {<<f>> : f \in Files} \cup {<<f, g>> : f \in Files, g \in Files}

\* What the user can type in the query box, as sequences of characters.
Queries ==
  { <<>>, <<" ">>, <<"a">>, <<" ", "b", " ">> }

\* The status messages of Workspace.
MsgOCR == "Realizando OCR de Alta Precisão (Gemini 2.5)..."
MsgAnalysis == "Analisando Requisitos Legais (Lei 6.015/73 e CC/2002)..."
MsgError == "Ocorreu um erro ao processar o documento. Tente novamente."
MsgResearch == "Consultando Jurisprudência e Legislação..."

\* { ...prev, ...upd }: the fields of upd override those of prev.
Spread(prev, upd) == upd @@ prev

\* obj.field is present (not undefined)
Has(obj, field) == field \in DOMAIN obj

---------------------------------------------------------------------------
(* The external model and the three wrappers around it (geminiService). *)

\* A promise of ai.models.generateContent or of the FileReader that rejects.
Rejected == [rejected |-> TRUE]

\* A wrapper's own outcome: the value it resolves with ...
Resolve(value) == [ok |-> TRUE, value |-> value]

\* ... or the Error it throws.
Throw(message) == [ok |-> FALSE, error |-> message]

\* The transcription the external model gives of an image.
Transcription(base64Image) == "TRANSCRICAO " \o base64Image

\* The prompt of analyzeLegalText takes the first 40000 characters.
AnalysisBudget == 40000

\* The prompt of performDeepResearch takes the first 2000 characters.
ResearchBudget == 2000

\* The text made of the first n characters of a longer text.
FirstChars(text, n) == text \o "[0," \o ToString(n) \o ")"

\* How many characters a text of the model has: the transcription of the
\* first image is longer than the prompt of the analysis takes, that of the
\* second is longer than the prompt of the research takes only; a text
\* made of the first n characters of a transcription has n.
TextLength(text) ==
  CASE text = "" -> 0
    [] text = Transcription("img-1") -> 40001
    [] text = Transcription("img-2") -> 2001
    [] OTHER ->
         CHOOSE n \in {AnalysisBudget, ResearchBudget} :
           \E image \in {"img-1", "img-2"} :
             text = FirstChars(Transcription(image), n)

\* text.substring(0, n): the text itself when it has no more than n
\* characters, else its first n characters.
substring(text, n) ==
  IF TextLength(text) <= n THEN text ELSE FirstChars(text, n)

\* What generateContent can answer to the OCR request for an image: a
\* rejection, a response without text, an empty text, or a transcription.
OcrOutcomes(base64Image) ==
  { Rejected,
    [candidates |-> <<>>],
    [candidates |-> <<>>, text |-> ""],
    [candidates |-> <<>>, text |-> Transcription(base64Image)] }

\* response.text || fallback
TextOr(response, fallback) ==
  IF Has(response, "text") /\ response.text # "" THEN response.text
  ELSE fallback

\* performOCR: the text of the response, "" when there is none; any
\* rejection of the call is rethrown as a fixed Error.
performOCR(base64Image, mimeType, outcome) ==
  IF Has(outcome, "rejected")
  THEN Throw("Falha ao realizar OCR no documento.")
  ELSE Resolve(TextOr(outcome, ""))

\* The JSON documents the external model can answer to the analysis request.
JsonEmpty == ""
JsonBroken == "{\"summary\": "
JsonNull == "null"
JsonFull ==
  "{\"rawText\":\"eco\",\"summary\":\"s\",\"documentType\":\"d\",\"parties\":[],\"dates\":[],\"missingRequirements\":[],\"riskFactors\":[]}"
JsonSummaryOnly == "{\"summary\":\"s\"}"

\* A complete document whose rawText echoes the text given.
JsonEcho(rawText) ==
  "{\"rawText\":\"" \o rawText \o "\",\"summary\":\"s\",\"documentType\":\"d\",\"parties\":[],\"dates\":[],\"missingRequirements\":[],\"riskFactors\":[]}"

\* The texts the external model can echo: what the prompt showed it of a
\* transcription.
Echoes == { substring(Transcription(f.bytes), AnalysisBudget) : f \in Files }

\* JSON.parse on those documents: a SyntaxError, null, or the object with
\* its properties.
JSONparse(jsonText) ==
  CASE jsonText = JsonNull -> [ok |-> TRUE, kind |-> "null"]
    [] jsonText = JsonFull ->
         [ok |-> TRUE, kind |-> "object",
          props |-> [rawText |-> "eco", summary |-> "s", documentType |-> "d",
                     parties |-> <<>>, dates |-> <<>>,
                     missingRequirements |-> <<>>, riskFactors |-> <<>>]]
    [] jsonText = JsonSummaryOnly ->
         [ok |-> TRUE, kind |-> "object", props |-> [summary |-> "s"]]
    [] jsonText \in {JsonEcho(e) : e \in Echoes} ->
         [ok |-> TRUE, kind |-> "object",
          props |-> [rawText |-> CHOOSE e \in Echoes : jsonText = JsonEcho(e),
                     summary |-> "s", documentType |-> "d",
                     parties |-> <<>>, dates |-> <<>>,
                     missingRequirements |-> <<>>, riskFactors |-> <<>>]]
    [] OTHER -> [ok |-> FALSE]

\* What generateContent can answer to the analysis request.
AnalysisOutcomes ==
  { Rejected, [candidates |-> <<>>] }
    \cup { [candidates |-> <<>>, text |-> j] :
             j \in {JsonEmpty, JsonBroken, JsonNull, JsonFull, JsonSummaryOnly}
                     \cup {JsonEcho(e) : e \in Echoes} }

\* An analyzeLegalText that returns the parsed response as it is.
analyzeLegalTextAsParsed(text, outcome) ==
  LET failure == Throw("Falha na análise jurídica do texto.")
  IN IF Has(outcome, "rejected") THEN failure
     ELSE IF TextOr(outcome, "") = "" THEN failure
     ELSE LET data == JSONparse(outcome.text)
          IN IF ~data.ok THEN failure
             ELSE IF data.kind # "object" THEN failure
             ELSE Resolve(data.props)

\* The request analyzeLegalText sends: the prompt embeds the first
\* AnalysisBudget characters of the text.
AnalysisRequest(text) ==
  [model |-> "gemini-2.5-pro", text |-> substring(text, AnalysisBudget)]

\* analyzeLegalText: parses the response and overwrites rawText with the
\* text passed in; a rejection, an empty response, a SyntaxError of
\* JSON.parse and the TypeError of assigning to null are all rethrown as one
\* fixed Error.
analyzeLegalText(text, outcome) ==
  LET failure == Throw("Falha na análise jurídica do texto.")
  IN IF Has(outcome, "rejected") THEN failure
     ELSE IF TextOr(outcome, "") = "" THEN failure
     ELSE LET data == JSONparse(outcome.text)
          IN IF ~data.ok THEN failure
             ELSE IF data.kind # "object" THEN failure
             ELSE Resolve(Spread(data.props, [rawText |-> text]))

\* Grounding chunks the search-grounded model can cite.
WebChunk == [web |-> [title |-> "STJ", uri |-> "https://stj.example/a"]]
OtherChunk == [retrievedContext |-> [uri |-> "gs://doc"]]
UntitledChunk == [web |-> [uri |-> "https://tj.example/b"]]
SecondWebChunk == [web |-> [title |-> "CNJ", uri |-> "https://cnj.example/c"]]

\* What generateContent can answer to the research request: a rejection, a
\* response without text, a text with grounding chunks, and a text without
\* grounding metadata.
ResearchOutcomes ==
  { Rejected,
    [candidates |-> <<>>],
    [candidates |-> <<[groundingMetadata |->
                        [groundingChunks |->
                           <<OtherChunk, WebChunk, UntitledChunk,
                             SecondWebChunk>>]]>>,
     text |-> "achados"],
    [candidates |-> <<[index |-> 0]>>, text |-> "achados"] }

\* The callback of map: the { title, uri } pair of a chunk that has a web
\* entry (a property the entry lacks stays undefined), null for any other.
SourceOf(chunk) ==
  IF Has(chunk, "web")
  THEN [k \in {"title", "uri"} \cap DOMAIN chunk.web |-> chunk.web[k]]
  ELSE Null

\* chunks.map(SourceOf)
RECURSIVE MapSources(_)
MapSources(chunks) ==
  IF chunks = <<>> THEN <<>>
  ELSE <<SourceOf(Head(chunks))>> \o MapSources(Tail(chunks))

\* response.candidates?.[0]?.groundingMetadata?.groundingChunks
\*   ?.map(...).filter(s => s !== null) || []
GroundingSources(response) ==
  IF ~Has(response, "candidates") \/ response.candidates = <<>> THEN <<>>
  ELSE LET c == response.candidates[1]
       IN IF ~Has(c, "groundingMetadata") THEN <<>>
          ELSE IF ~Has(c.groundingMetadata, "groundingChunks") THEN <<>>
          ELSE SelectSeq(MapSources(c.groundingMetadata.groundingChunks),
                         LAMBDA s : s # Null)

\* A request that embeds the whole context.
ResearchRequestWhole(query, context) ==
  [model |-> "gemini-2.5-flash", query |-> query, context |-> context]

\* The request performDeepResearch sends: the prompt embeds the query and
\* the first ResearchBudget characters of the context.
ResearchRequest(query, context) ==
  [model |-> "gemini-2.5-flash", query |-> query,
   context |-> substring(context, ResearchBudget)]

\* performDeepResearch: the findings (a fixed sentence when the response has
\* no text) and the cited web sources; a rejection is rethrown as a fixed
\* Error.
performDeepResearch(query, context, outcome) ==
  IF Has(outcome, "rejected")
  THEN Throw("Falha na pesquisa aprofundada.")
  ELSE Resolve([query |-> query,
                findings |-> TextOr(outcome, "Não foi possível realizar a pesquisa."),
                sources |-> GroundingSources(outcome)])

---------------------------------------------------------------------------
(* The state machine. *)

Init ==
  /\ docContext = Null
  /\ status = "IDLE"
  /\ activeTab = "ANALYSIS"
  /\ researchQuery = <<>>
  /\ statusMessage = ""
  /\ isDragging = FALSE
  /\ clock = 0
  /\ pipelines = {}
  /\ researches = {}
  /\ runs = 0
  /\ submitted = <<>>
  /\ everReady = FALSE

\* Workspace renders UploadArea exactly while docContext is null.
UploadAreaShown == docContext = Null

\* The query box is rendered on the research tab of a loaded document.
QueryBoxShown == docContext # Null /\ activeTab = "RESEARCH"

\* processFile up to its first await: the file reader is started.
processFile(file) ==
  /\ runs < MaxRuns
  /\ runs' = runs + 1
  /\ pipelines' = pipelines \cup
       {[run |-> runs + 1, file |-> file, awaiting |-> "readFileAsBase64"]}
  /\ UNCHANGED <<docContext, status, activeTab, researchQuery, statusMessage,
                 clock, researches, submitted, everReady>>

\* onFileSelected is called with the first file of a non-empty list.
onFileSelected(files) ==
  IF Len(files) > 0
  THEN processFile(files[1])
  ELSE UNCHANGED <<docContext, status, activeTab, researchQuery,
                   statusMessage, clock, pipelines, researches, runs,
                   submitted, everReady>>

handleDragOver ==
  /\ UploadAreaShown
  /\ isDragging' = TRUE
  /\ UNCHANGED <<docContext, status, activeTab, researchQuery, statusMessage,
                 clock, pipelines, researches, runs, submitted, everReady>>

handleDragLeave ==
  /\ UploadAreaShown
  /\ isDragging' = FALSE
  /\ UNCHANGED <<docContext, status, activeTab, researchQuery, statusMessage,
                 clock, pipelines, researches, runs, submitted, everReady>>

handleDrop ==
  /\ UploadAreaShown
  /\ isDragging' = FALSE
  /\ \E files \in FileLists : onFileSelected(files)

handleFileChange ==
  /\ UploadAreaShown
  /\ UNCHANGED isDragging
  /\ \E files \in FileLists : onFileSelected(files)

\* The event a FileReader that fails rejects the read with.
ReadError == "ProgressEvent error"

\* A catch block that shows the message of the error it caught.
CatchShownVerbatim(error) == [status |-> "ERROR", statusMessage |-> error]

\* What the catch block of processFile shows for the error it caught: the
\* error goes to the console only.
CatchShown(error) == [status |-> "ERROR", statusMessage |-> MsgError]

\* A catch block that logs the error and forgets to set the status.
processFileCatchSilent(error) == UNCHANGED <<status, statusMessage>>

\* The catch block of processFile.
processFileCatch(error) ==
  /\ status' = CatchShown(error).status
  /\ statusMessage' = CatchShown(error).statusMessage

\* The record processFile creates once the file is read; t1 and t2 are the
\* two readings of Date.now().
NewDocContext(file, base64Full, t1, t2) ==
  [id |-> ToString(t1), fileName |-> file.name, fileType |-> file.type,
   imageBase64 |-> base64Full, createdAt |-> t2]

\* reader.result for a file: the data URL, as the parts split(',') gives.
DataURL(file) == <<"data:" \o file.type \o ";base64", file.bytes>>

\* The file reader settles: processFile continues from line 30 to the
\* await of performOCR, or to its catch block.
ReadSettled(p) ==
  /\ p \in pipelines
  /\ p.awaiting = "readFileAsBase64"
  /\ \/ \E t1 \in clock..MaxClock, t2 \in clock..MaxClock :
          /\ t1 <= t2
          /\ LET base64Full == DataURL(p.file)
                 base64Data == base64Full[2]
             IN /\ docContext' = NewDocContext(p.file, base64Full, t1, t2)
                /\ pipelines' = (pipelines \ {p}) \cup
                     {[run |-> p.run, file |-> p.file,
                       awaiting |-> "performOCR",
                       base64Image |-> base64Data, mimeType |-> p.file.type]}
          /\ clock' = t2
          /\ status' = "PROCESSING_OCR"
          /\ statusMessage' = MsgOCR
          /\ isDragging' = FALSE
          /\ everReady' = FALSE
     \/ /\ processFileCatch(ReadError)
        /\ pipelines' = pipelines \ {p}
        /\ UNCHANGED <<docContext, clock, isDragging, everReady>>
  /\ UNCHANGED <<activeTab, researchQuery, researches, runs, submitted>>

\* An analysis started on a fresh empty text instead of the transcription.
AnalysisArgumentBlank(extractedText) == ""

\* The argument processFile passes to analyzeLegalText.
AnalysisArgument(extractedText) == extractedText

\* performOCR settles: processFile continues from line 45 to the await of
\* analyzeLegalText, or to its catch block.
OcrSettled(p) ==
  /\ p \in pipelines
  /\ p.awaiting = "performOCR"
  /\ \E outcome \in OcrOutcomes(p.base64Image) :
       LET r == performOCR(p.base64Image, p.mimeType, outcome)
       IN IF r.ok
          THEN /\ status' = "PROCESSING_ANALYSIS"
               /\ statusMessage' = MsgAnalysis
               /\ pipelines' = (pipelines \ {p}) \cup
                    {[run |-> p.run, file |-> p.file,
                      awaiting |-> "analyzeLegalText",
                      extractedText |-> r.value,
                      text |-> AnalysisArgument(r.value),
                      request |->
                        AnalysisRequest(AnalysisArgument(r.value))]}
          ELSE /\ processFileCatch(r.error)
               /\ pipelines' = pipelines \ {p}
  /\ UNCHANGED <<docContext, activeTab, researchQuery, isDragging, clock,
                 researches, runs, submitted, everReady>>

\* An updater that builds the record anew and forgets its research.
AttachAnalysisOnly(prev, analysis) ==
  IF prev # Null
  THEN [id |-> prev.id, fileName |-> prev.fileName,
        fileType |-> prev.fileType, imageBase64 |-> prev.imageBase64,
        createdAt |-> prev.createdAt, extractedData |-> analysis]
  ELSE Null

\* setDocContext(prev => prev ? { ...prev, extractedData: analysis } : null)
AttachAnalysis(prev, analysis) ==
  IF prev # Null THEN Spread(prev, [extractedData |-> analysis]) ELSE Null

\* analyzeLegalText settles: processFile continues from line 51 to its end,
\* or to its catch block.
AnalysisSettled(p) ==
  /\ p \in pipelines
  /\ p.awaiting = "analyzeLegalText"
  /\ \E outcome \in AnalysisOutcomes :
       LET r == analyzeLegalText(p.text, outcome)
       IN IF r.ok
          THEN /\ docContext' = AttachAnalysis(docContext, r.value)
               /\ status' = "COMPLETED"
               /\ statusMessage' = ""
               /\ everReady' = TRUE
          ELSE /\ processFileCatch(r.error)
               /\ UNCHANGED <<docContext, everReady>>
  /\ pipelines' = pipelines \ {p}
  /\ UNCHANGED <<activeTab, researchQuery, isDragging, clock, researches,
                 runs, submitted>>

\* String.prototype.trim on a sequence of characters.
RECURSIVE TrimStart(_)
TrimStart(s) ==
  IF s # <<>> /\ Head(s) = " " THEN TrimStart(Tail(s)) ELSE s

RECURSIVE TrimEnd(_)
TrimEnd(s) ==
  IF s # <<>> /\ s[Len(s)] = " " THEN TrimEnd(SubSeq(s, 1, Len(s) - 1)) ELSE s

Trim(s) == TrimEnd(TrimStart(s))

\* A guard that tests the query without trimming it.
ResearchGuardNoTrim ==
  /\ docContext # Null
  /\ Has(docContext, "extractedData")
  /\ researchQuery # <<>>

\* The guard of handleResearch: a document with extractedData and a query
\* that is not blank.
ResearchGuard ==
  /\ docContext # Null
  /\ Has(docContext, "extractedData")
  /\ Trim(researchQuery) # <<>>

\* handleResearch up to its await: nothing when the guard fails, else the
\* status is set and performDeepResearch is called with the query and the
\* rawText of the render's docContext.
handleResearch ==
  IF ResearchGuard
  THEN /\ Len(submitted) < MaxCalls
       /\ status' = "PROCESSING_RESEARCH"
       /\ statusMessage' = MsgResearch
       /\ submitted' = Append(submitted, researchQuery)
       /\ researches' = researches \cup
            {[call |-> Len(submitted) + 1,
              awaiting |-> "performDeepResearch",
              query |-> researchQuery,
              context |-> docContext.extractedData.rawText,
              request |-> ResearchRequest(researchQuery,
                            docContext.extractedData.rawText),
              docContext |-> docContext]}
       /\ UNCHANGED <<docContext, activeTab, researchQuery, isDragging,
                      clock, pipelines, runs, everReady>>
  ELSE UNCHANGED vars

\* Enter in the query box calls handleResearch whatever the status.
QueryKeyDownEnter ==
  /\ QueryBoxShown
  /\ handleResearch

\* The search button calls handleResearch; it is disabled for a blank query
\* and while a research is running.  (The loader overlay covers it for the
\* mouse only: the focused button still answers the keyboard.)
SearchButtonClick ==
  /\ QueryBoxShown
  /\ Trim(researchQuery) # <<>>
  /\ status # "PROCESSING_RESEARCH"
  /\ handleResearch

\* onChange of the query box.
QueryChange(value) ==
  /\ QueryBoxShown
  /\ researchQuery' = value
  /\ UNCHANGED <<docContext, status, activeTab, statusMessage, isDragging,
                 clock, pipelines, researches, runs, submitted, everReady>>

\* The two tab buttons.
TabClick(tab) ==
  /\ docContext # Null
  /\ activeTab' = tab
  /\ UNCHANGED <<docContext, status, researchQuery, statusMessage,
                 isDragging, clock, pipelines, researches, runs, submitted,
                 everReady>>

\* An updater that puts the result behind the entries already there.
PrependResearchAtEnd(prev, result) ==
  IF prev = Null THEN Null
  ELSE LET currentResearch ==
             IF Has(prev, "research") THEN prev.research ELSE <<>>
       IN Spread(prev, [research |-> currentResearch \o <<result>>])

\* The setDocContext updater of handleResearch: the result goes in front.
PrependResearch(prev, result) ==
  IF prev = Null THEN Null
  ELSE LET currentResearch ==
             IF Has(prev, "research") THEN prev.research ELSE <<>>
       IN Spread(prev, [research |-> <<result>> \o currentResearch])

\* A finally block that leaves the message of the research in place.
handleResearchFinallyKeepsMessage ==
  /\ status' = "COMPLETED"
  /\ UNCHANGED statusMessage

\* The finally block of handleResearch.
handleResearchFinally ==
  /\ status' = "COMPLETED"
  /\ statusMessage' = ""

\* A handleResearch that clears the query box whether the call succeeded or
\* not.
ResearchSettledClearing(h) ==
  /\ h \in researches
  /\ \E outcome \in ResearchOutcomes :
       LET r == performDeepResearch(h.query, h.context, outcome)
       IN IF r.ok
          THEN docContext' = PrependResearch(docContext, r.value)
          ELSE UNCHANGED docContext
  /\ researchQuery' = <<>>
  /\ handleResearchFinally
  /\ everReady' = TRUE
  /\ researches' = researches \ {h}
  /\ UNCHANGED <<activeTab, isDragging, clock, pipelines, runs, submitted>>

\* performDeepResearch settles: handleResearch continues from line 71 to its
\* end.
ResearchSettled(h) ==
  /\ h \in researches
  /\ \E outcome \in ResearchOutcomes :
       LET r == performDeepResearch(h.query, h.context, outcome)
       IN IF r.ok
          THEN /\ docContext' = PrependResearch(docContext, r.value)
               /\ researchQuery' = <<>>
          ELSE UNCHANGED <<docContext, researchQuery>>
  /\ handleResearchFinally
  /\ everReady' = TRUE
  /\ researches' = researches \ {h}
  /\ UNCHANGED <<activeTab, isDragging, clock, pipelines, runs, submitted>>

Next ==
  \/ handleDragOver
  \/ handleDragLeave
  \/ handleDrop
  \/ handleFileChange
  \/ \E p \in pipelines : ReadSettled(p)
  \/ \E p \in pipelines : OcrSettled(p)
  \/ \E p \in pipelines : AnalysisSettled(p)
  \/ QueryKeyDownEnter
  \/ SearchButtonClick
  \/ \E value \in Queries : QueryChange(value)
  \/ \E tab \in {"ANALYSIS", "RESEARCH"} : TabClick(tab)
  \/ \E h \in researches : ResearchSettled(h)

Spec == Init /\ [][Next]_vars

\* A pending file read or call of the external model settles and the
\* continuation that awaits it runs.
Settle ==
  \/ \E p \in pipelines :
       ReadSettled(p) \/ OcrSettled(p) \/ AnalysisSettled(p)
  \/ \E h \in researches : ResearchSettled(h)

\* The file reader and the external model settle what is pending, and the
\* event loop then runs the continuation.
FairSpec == Spec /\ WF_vars(Settle)

---------------------------------------------------------------------------
(* Properties. *)

\* The calls of the external model that are pending.
ExternalCalls ==
  {p \in pipelines : p.awaiting \in {"performOCR", "analyzeLegalText"}}
    \cup researches

\* prev.research || []
ResearchOf(ctx) ==
  IF ctx # Null /\ Has(ctx, "research") THEN ctx.research ELSE <<>>

\* The invocation p of processFile is not pending after the step.
Finished(p) == \A q \in pipelines' : q.run # p.run

\* C1: in every reachable state at most one call of performOCR,
\* analyzeLegalText or performDeepResearch is pending.
C1_SingleFlight == Cardinality(ExternalCalls) <= 1

\* C2: a handleResearch invoked while the status is not COMPLETED changes
\* neither the research sequence nor the status and calls nothing.
C2_ResearchNoOpUnlessReady ==
  [][ ((QueryKeyDownEnter \/ SearchButtonClick) /\ status # "COMPLETED")
        => /\ ResearchOf(docContext') = ResearchOf(docContext)
           /\ status' = status
           /\ researches' = researches
           /\ submitted' = submitted ]_vars

\* C3: with a file reader and an external model that settle what is
\* pending, a started processFile and every status PROCESSING_OCR,
\* PROCESSING_ANALYSIS or PROCESSING_RESEARCH lead to the status COMPLETED
\* or ERROR: the status never stays in an intermediate value.
C3_PipelineEnds ==
  ( \/ pipelines # {}
    \/ status \in {"PROCESSING_OCR", "PROCESSING_ANALYSIS",
                   "PROCESSING_RESEARCH"} )
    ~> (status \in {"COMPLETED", "ERROR"})

\* C3 witness: a processFile and a handleResearch have both run to their
\* end and the status is COMPLETED.
C3_Witness ==
  /\ runs > 0
  /\ submitted # <<>>
  /\ pipelines = {}
  /\ researches = {}
  /\ status = "COMPLETED"

\* C4: the record has extractedData exactly when the status has been
\* COMPLETED at least once since the record was created.
C4_AnalysisIffReady ==
  docContext # Null => (Has(docContext, "extractedData") <=> everReady)

\* The status changes the state machine of the specification allows.
AllowedEdges ==
  { <<"IDLE", "PROCESSING_OCR">>,
    <<"PROCESSING_OCR", "PROCESSING_ANALYSIS">>,
    <<"PROCESSING_ANALYSIS", "COMPLETED">>,
    <<"COMPLETED", "PROCESSING_OCR">>,
    <<"COMPLETED", "PROCESSING_RESEARCH">>,
    <<"PROCESSING_RESEARCH", "COMPLETED">>,
    <<"PROCESSING_OCR", "ERROR">>,
    <<"PROCESSING_ANALYSIS", "ERROR">> }

\* C5: every change of status is one of the allowed edges, and the status
\* does not go from PROCESSING_RESEARCH to COMPLETED while another call is
\* still pending.
C5_OnlyAllowedEdges ==
  [][ status' # status
        => /\ <<status, status'>> \in AllowedEdges
           /\ (status = "PROCESSING_RESEARCH" /\ status' = "COMPLETED")
                => ExternalCalls' = {} ]_vars

\* C6: the stages of one processFile run are ordered.  The step that calls
\* performOCR creates the record of the run's file and sets PROCESSING_OCR;
\* analyzeLegalText is called only by a run that awaited performOCR, in the
\* step that sets PROCESSING_ANALYSIS, with exactly a text performOCR
\* resolves with for the run's image; extractedData is attached only by a
\* run that awaited analyzeLegalText, in the step that sets COMPLETED, and
\* it is a value analyzeLegalText resolves with for the run's text.
C6_StagesOrdered ==
  [][ /\ \A q \in pipelines' :
           q.awaiting = "performOCR" /\ q \notin pipelines
             => /\ \E p \in pipelines :
                     /\ p.run = q.run
                     /\ p.awaiting = "readFileAsBase64"
                     /\ p.file = q.file
                /\ status' = "PROCESSING_OCR"
                /\ docContext' # Null
                /\ docContext'.fileName = q.file.name
                /\ docContext'.imageBase64 = DataURL(q.file)
                /\ ~Has(docContext', "extractedData")
                /\ q.base64Image = q.file.bytes
                /\ q.mimeType = q.file.type
      /\ \A q \in pipelines' :
           q.awaiting = "analyzeLegalText" /\ q \notin pipelines
             => /\ \E p \in pipelines :
                     /\ p.run = q.run
                     /\ p.awaiting = "performOCR"
                     /\ \E outcome \in OcrOutcomes(p.base64Image) :
                          LET r == performOCR(p.base64Image, p.mimeType, outcome)
                          IN r.ok /\ q.extractedText = r.value
                /\ q.text = q.extractedText
                /\ status' = "PROCESSING_ANALYSIS"
      /\ ( /\ docContext' # Null
           /\ Has(docContext', "extractedData")
           /\ \/ docContext = Null
              \/ ~Has(docContext, "extractedData")
              \/ docContext.extractedData # docContext'.extractedData )
           => /\ status' = "COMPLETED"
              /\ \E p \in pipelines :
                   /\ p.awaiting = "analyzeLegalText"
                   /\ Finished(p)
                   /\ \E outcome \in AnalysisOutcomes :
                        LET r == analyzeLegalText(p.text, outcome)
                        IN r.ok /\ docContext'.extractedData = r.value
    ]_vars

\* C6 witness: a run went through all its stages: extractedData holding a
\* transcription is attached and the status is COMPLETED.
C6_Witness ==
  /\ docContext # Null
  /\ Has(docContext, "extractedData")
  /\ docContext.extractedData.rawText # ""
  /\ status = "COMPLETED"
  /\ pipelines = {}

\* C7: processFile is started only while the status is IDLE or COMPLETED.
C7_StartOnlyFromIdleOrReady ==
  [][ runs' # runs => status \in {"IDLE", "COMPLETED"} ]_vars

\* C8: when performOCR or analyzeLegalText fails in a run, the status
\* becomes ERROR with a message, and the record created for the run's file
\* stays in place as it was, without extractedData.
C8_FailureKeepsRecord ==
  [][ \A p \in pipelines :
        ( /\ p.awaiting \in {"performOCR", "analyzeLegalText"}
          /\ Finished(p)
          /\ status' # "COMPLETED" )
          => /\ status' = "ERROR"
             /\ statusMessage' # ""
             /\ docContext' = docContext
             /\ docContext' # Null
             /\ docContext'.fileName = p.file.name
             /\ docContext'.fileType = p.file.type
             /\ docContext'.imageBase64 = DataURL(p.file)
             /\ ~Has(docContext', "extractedData") ]_vars

\* C9: when performDeepResearch throws, the status afterwards is COMPLETED
\* and the research sequence is the one the record had when the call was
\* made.
C9_ResearchFailureKeepsSequence ==
  [][ \A h \in researches :
        (h \notin researches' /\ docContext' = docContext)
          => /\ status' = "COMPLETED"
             /\ ResearchOf(docContext') = ResearchOf(h.docContext) ]_vars

\* The position of the only occurrence of query in the submitted queries.
SubmissionOf(query) ==
  CHOOSE i \in 1..Len(submitted) : submitted[i] = query

\* query was submitted exactly once.
SubmittedOnce(query) ==
  Cardinality({i \in 1..Len(submitted) : submitted[i] = query}) = 1

\* C10: of two entries of the research sequence, the one whose query was
\* submitted later has the lower index.
C10_ReverseSubmissionOrder ==
  \A i \in 1..Len(ResearchOf(docContext)) :
    \A j \in 1..Len(ResearchOf(docContext)) :
      LET qi == docContext.research[i].query
          qj == docContext.research[j].query
      IN (i < j /\ SubmittedOnce(qi) /\ SubmittedOnce(qj))
           => SubmissionOf(qi) > SubmissionOf(qj)

\* The step creates the record of a file: a run of processFile went from
\* the file reader to the call of performOCR.
RecordCreated ==
  \E q \in pipelines' : q.awaiting = "performOCR" /\ q \notin pipelines

\* C11: for as long as a record exists, every step leaves its research
\* sequence unchanged or puts one new entry in front of it: no step removes
\* or reorders entries or appends at the end.
C11_ResearchOnlyPrepended ==
  [][ ~RecordCreated
        => \/ ResearchOf(docContext') = ResearchOf(docContext)
           \/ /\ Len(ResearchOf(docContext')) =
                   Len(ResearchOf(docContext)) + 1
              /\ Tail(ResearchOf(docContext')) = ResearchOf(docContext)
    ]_vars

\* C11 witness: two results with different queries were put in the
\* sequence, one after the other.
C11_Witness ==
  /\ Len(ResearchOf(docContext)) = 2
  /\ docContext.research[1].query # docContext.research[2].query

\* C12: the extractedData a run attaches has as rawText exactly the text
\* performOCR gave the run, whatever rawText the parsed response carries
\* (none, another text, a truncated prefix), also for a text longer than the
\* prompt takes.
C12_RawTextIsTranscription ==
  [][ \A p \in pipelines :
        (p.awaiting = "analyzeLegalText" /\ Finished(p)
           /\ status' = "COMPLETED")
          => /\ Has(docContext', "extractedData")
             /\ Has(docContext'.extractedData, "rawText")
             /\ docContext'.extractedData.rawText = p.extractedText ]_vars

\* C12 witness: the analysis of a transcription longer than the prompt
\* takes has been attached, and the external model could only echo a
\* truncated prefix of it.
C12_Witness ==
  /\ docContext # Null
  /\ Has(docContext, "extractedData")
  /\ docContext.extractedData.rawText # ""
  /\ TextLength(docContext.extractedData.rawText) > AnalysisBudget
  /\ docContext.extractedData.rawText \notin Echoes
  /\ status = "COMPLETED"

\* C13: once a record has extractedData, no later step changes it for as
\* long as the record exists.
C13_ExtractedDataImmutable ==
  [][ (docContext # Null /\ Has(docContext, "extractedData")
         /\ ~RecordCreated)
        => /\ docContext' # Null
           /\ Has(docContext', "extractedData")
           /\ docContext'.extractedData = docContext.extractedData ]_vars

\* C14: performOCR throws for a response without text, so that
\* analyzeLegalText is never called with an empty transcription.
C14_NoAnalysisOfEmptyText ==
  /\ \A p \in pipelines :
       p.awaiting = "performOCR"
         => \A outcome \in OcrOutcomes(p.base64Image) :
              (~Has(outcome, "rejected") /\ TextOr(outcome, "") = "")
                => ~performOCR(p.base64Image, p.mimeType, outcome).ok
  /\ \A p \in pipelines :
       p.awaiting = "analyzeLegalText" => p.extractedText # ""

\* interface ExtractedData: its seven required fields.
ExtractedDataFields ==
  {"rawText", "summary", "documentType", "parties", "dates", "riskFactors",
   "missingRequirements"}

\* C15: the status is never COMPLETED with an extractedData that lacks a
\* required field.
C15_NoPartialAnalysis ==
  (status = "COMPLETED" /\ docContext # Null
     /\ Has(docContext, "extractedData"))
    => \A field \in ExtractedDataFields :
         Has(docContext.extractedData, field)

\* C16: the extractedData of the record always has missingRequirements, the
\* empty sequence when the response left it out.
C16_MissingRequirementsDefined ==
  (docContext # Null /\ Has(docContext, "extractedData"))
    => Has(docContext.extractedData, "missingRequirements")

\* The response has a text that is not empty.
HasText(response) ==
  ~Has(response, "rejected") /\ TextOr(response, "") # ""

\* The response carries grounding metadata.
HasGrounding(response) ==
  /\ Has(response, "candidates")
  /\ response.candidates # <<>>
  /\ Has(response.candidates[1], "groundingMetadata")

\* C17: a result enters the research sequence only for a response with a
\* text that is not empty, and a response with such a text and no grounding
\* metadata gives a result with no sources.
C17_NoEntryWithoutText ==
  [][ \A h \in researches :
        /\ (h \notin researches'
              /\ ResearchOf(docContext') # ResearchOf(docContext))
             => \E outcome \in ResearchOutcomes :
                  /\ HasText(outcome)
                  /\ Resolve(Head(ResearchOf(docContext'))) =
                       performDeepResearch(h.query, h.context, outcome)
        /\ \A outcome \in ResearchOutcomes :
             (HasText(outcome) /\ ~HasGrounding(outcome))
               => LET r == performDeepResearch(h.query, h.context, outcome)
                  IN r.ok /\ r.value.sources = <<>> ]_vars

\* C18: every source of every entry of the research sequence has a title
\* and a uri: chunks without a complete web entry are filtered out.
C18_SourcesHaveTitleAndUri ==
  \A i \in 1..Len(ResearchOf(docContext)) :
    LET sources == docContext.research[i].sources
    IN \A k \in 1..Len(sources) :
         Has(sources[k], "title") /\ Has(sources[k], "uri")

\* The errors performOCR can throw.
OcrErrors ==
  { r.error : r \in { x \in { performOCR(f.bytes, f.type, outcome) :
                                f \in Files, outcome \in UNION
                                  { OcrOutcomes(g.bytes) : g \in Files } } :
                      ~x.ok } }

\* The errors analyzeLegalText can throw.
AnalysisErrors ==
  { r.error : r \in { x \in { analyzeLegalText(Transcription(f.bytes), outcome) :
                                f \in Files, outcome \in AnalysisOutcomes } :
                      ~x.ok } }

\* C19: what is shown after performOCR fails (status and statusMessage) is
\* not what is shown after analyzeLegalText fails.
C19_FailuresDistinct ==
  [][ \A p \in pipelines :
        (p.awaiting = "performOCR" /\ Finished(p))
          => \A error \in AnalysisErrors :
               <<status', statusMessage'>> #
                 <<CatchShown(error).status,
                   CatchShown(error).statusMessage>> ]_vars

\* C20: when performOCR or analyzeLegalText fails in a run, the
\* statusMessage afterwards is the one fixed string, whichever of the two
\* threw and whatever its error, and it is not the message of the error.
C20_FailureMessageFixed ==
  [][ \A p \in pipelines :
        (p.awaiting \in {"performOCR", "analyzeLegalText"}
           /\ Finished(p) /\ status' # "COMPLETED")
          => /\ statusMessage' = MsgError
             /\ statusMessage' \notin OcrErrors \cup AnalysisErrors
             /\ \A e1 \in OcrErrors \cup AnalysisErrors :
                  \A e2 \in OcrErrors \cup AnalysisErrors :
                    CatchShown(e1).statusMessage =
                      CatchShown(e2).statusMessage ]_vars

\* C20 witness: the only run failed after its record was created, in
\* performOCR or in analyzeLegalText, and the fixed message is shown.
C20_Witness ==
  /\ runs = 1
  /\ docContext # Null
  /\ status = "ERROR"
  /\ statusMessage = MsgError
  /\ pipelines = {}

\* Math.min
Min(a, b) == IF a <= b THEN a ELSE b

\* The first k characters of a text, k no more than its length.
PrefixOfLength(text, k) ==
  IF k = TextLength(text) THEN text ELSE FirstChars(text, k)

\* C21: the request of a pending analyzeLegalText embeds exactly the first
\* min(length, AnalysisBudget) characters of the transcription, the request
\* of a pending performDeepResearch exactly the first
\* min(length, ResearchBudget) characters of rawText, and the budget of the
\* research is the smaller one: nothing beyond the budget is sent.
C21_PromptsTakePrefixes ==
  /\ ResearchBudget < AnalysisBudget
  /\ \A p \in pipelines :
       p.awaiting = "analyzeLegalText"
         => /\ p.request.text =
                 PrefixOfLength(p.extractedText,
                                Min(TextLength(p.extractedText),
                                    AnalysisBudget))
            /\ TextLength(p.request.text) <= AnalysisBudget
  /\ \A h \in researches :
       /\ h.request.context =
            PrefixOfLength(h.docContext.extractedData.rawText,
                           Min(TextLength(h.docContext.extractedData.rawText),
                               ResearchBudget))
       /\ TextLength(h.request.context) <= ResearchBudget
       /\ h.request.query = h.query

\* C21 witness: a research is pending on a transcription longer than both
\* budgets, of which the request carries the first ResearchBudget
\* characters.
C21_Witness ==
  \E h \in researches :
    /\ TextLength(h.context) > AnalysisBudget
    /\ h.request.context # h.context
    /\ TextLength(h.request.context) = ResearchBudget

\* The query is empty or made of spaces only.
Blank(query) == \A i \in 1..Len(query) : query[i] = " "

\* C23: handleResearch invoked on a record without extractedData, or with a
\* query that is empty or only whitespace, changes neither the status, the
\* message, the record nor the query text and calls nothing.
C23_GuardedResearchIsNoOp ==
  [][ ( /\ QueryKeyDownEnter \/ SearchButtonClick
        /\ \/ docContext = Null
           \/ ~Has(docContext, "extractedData")
           \/ Blank(researchQuery) )
        => UNCHANGED <<status, statusMessage, docContext, researchQuery,
                       researches, submitted>> ]_vars

\* C23 witness: the query box of an analysed record holds a single space:
\* Enter calls handleResearch and nothing has been submitted.
C23_Witness ==
  /\ QueryBoxShown
  /\ Has(docContext, "extractedData")
  /\ researchQuery = <<" ">>
  /\ status = "COMPLETED"
  /\ submitted = <<>>

\* The step ends the invocation h of handleResearch with a result put in
\* the research sequence.
ResearchSucceeded(h) ==
  /\ h \in researches
  /\ h \notin researches'
  /\ Len(ResearchOf(docContext')) = Len(ResearchOf(docContext)) + 1

\* C24: when performDeepResearch fails the query text stays what it was,
\* when it succeeds the query text becomes empty, and nothing but a
\* successful research or the user's typing changes the query text.
C24_QueryClearedOnlyOnSuccess ==
  [][ /\ \A h \in researches :
           h \notin researches'
             => IF ResearchSucceeded(h)
                THEN researchQuery' = <<>>
                ELSE researchQuery' = researchQuery
      /\ researchQuery' # researchQuery
           => \/ \E value \in Queries : QueryChange(value)
              \/ \E h \in researches :
                   ResearchSucceeded(h) /\ researchQuery' = <<>> ]_vars

\* C24 witness: the only research submitted has failed and its query is
\* still in the query box.
C24_Witness ==
  /\ Len(submitted) = 1
  /\ researches = {}
  /\ ResearchOf(docContext) = <<>>
  /\ researchQuery = submitted[1]
  /\ status = "COMPLETED"

\* C25: the extractedData of the record holds a transcription performOCR
\* gives of the record's own image.
C25_AnalysisOfOwnImage ==
  (docContext # Null /\ Has(docContext, "extractedData"))
    => \E outcome \in OcrOutcomes(docContext.imageBase64[2]) :
         LET r == performOCR(docContext.imageBase64[2],
                             docContext.fileType, outcome)
         IN r.ok /\ docContext.extractedData.rawText = r.value

\* C26: statusMessage is empty exactly when the status is IDLE or
\* COMPLETED.
C26_MessageIffBusyOrError ==
  statusMessage = "" <=> status \in {"IDLE", "COMPLETED"}

\* C26 witness: a research has run to its end and the status is COMPLETED
\* with no message.
C26_Witness ==
  /\ submitted # <<>>
  /\ researches = {}
  /\ pipelines = {}
  /\ status = "COMPLETED"
  /\ statusMessage = ""

\* C27: whenever the status is ERROR there is a record, and the upload
\* surface is not displayed.
C27_ErrorHasRecord ==
  status = "ERROR" => (docContext # Null /\ ~UploadAreaShown)

\* C28: once the status is ERROR with a record and nothing pending, no step
\* changes the status or the record, and the upload surface stays hidden.
C28_ErrorAbsorbing ==
  [][ ( /\ status = "ERROR"
        /\ docContext # Null
        /\ pipelines = {}
        /\ researches = {} )
        => /\ status' = status
           /\ docContext' = docContext
           /\ ~UploadAreaShown' ]_vars

\* The extractedData of the record is the same before and after the step.
SameExtractedData ==
  /\ Has(docContext', "extractedData") <=> Has(docContext, "extractedData")
  /\ Has(docContext, "extractedData")
       => docContext'.extractedData = docContext.extractedData

\* C29: for as long as a record exists, every step leaves its id, fileName,
\* fileType, imageBase64 and createdAt unchanged; a step that attaches
\* extractedData leaves research unchanged and a step that changes research
\* leaves extractedData unchanged.
C29_RecordFieldsKept ==
  [][ (docContext # Null /\ ~RecordCreated)
        => /\ docContext' # Null
           /\ \A field \in {"id", "fileName", "fileType", "imageBase64",
                            "createdAt"} :
                /\ Has(docContext', field)
                /\ docContext'[field] = docContext[field]
           /\ ~SameExtractedData
                => /\ Has(docContext', "research")
                        <=> Has(docContext, "research")
                   /\ ResearchOf(docContext') = ResearchOf(docContext)
           /\ ResearchOf(docContext') # ResearchOf(docContext)
                => SameExtractedData ]_vars

\* C29 witness: the record has had extractedData attached and a research
\* entry prepended.
C29_Witness ==
  /\ docContext # Null
  /\ Has(docContext, "extractedData")
  /\ Len(ResearchOf(docContext)) >= 1
  /\ status = "COMPLETED"
  /\ pipelines = {}
  /\ researches = {}

---------------------------------------------------------------------------
(* The analysis tab of a record whose analysis has completed. *)

\* A list of risk factors has at most MaxRisks elements.
MaxRisks == 2

\* RiskFactor.severity
Severities == {"LOW", "MEDIUM", "HIGH"}

\* interface RiskFactor
RiskFactor(severity) ==
  [severity |-> severity, description |-> "d", location |-> "l"]

\* The riskFactors a complete analysis can carry.
RiskLists ==
  UNION { [1..n -> {RiskFactor(severity) : severity \in Severities}] :
            n \in 0..MaxRisks }

\* riskFactors.some(r => r.severity === 'HIGH'), element by element.
RECURSIVE someHigh(_)
someHigh(riskFactors) ==
  IF riskFactors = <<>> THEN FALSE
  ELSE IF Head(riskFactors).severity = "HIGH" THEN TRUE
  ELSE someHigh(Tail(riskFactors))

\* A badge condition that looks at the first risk factor only.
HighRiskFirstOnly(extractedData) ==
  /\ extractedData.riskFactors # <<>>
  /\ Head(extractedData.riskFactors).severity = "HIGH"

\* The condition of the badge "Risco Elevado".
HighRisk(extractedData) == someHigh(extractedData.riskFactors)

\* The badge is rendered: the analysis tab of a record with extractedData
\* whose condition holds.
HighRiskBadgeShown ==
  /\ activeTab = "ANALYSIS"
  /\ docContext # Null
  /\ Has(docContext, "extractedData")
  /\ HighRisk(docContext.extractedData)

\* What analyzeLegalText resolves with for a complete response that carries
\* the risk factors given.
AnalysisWith(text, riskFactors) ==
  Spread(analyzeLegalText(text, [candidates |-> <<>>, text |-> JsonFull]).value,
         [riskFactors |-> riskFactors])

\* The Workspace once one run of processFile has completed on a file.
ViewInit ==
  /\ \E file \in Files, riskFactors \in RiskLists :
       docContext =
         AttachAnalysis(NewDocContext(file, DataURL(file), 0, 0),
                        AnalysisWith(Transcription(file.bytes), riskFactors))
  /\ status = "COMPLETED"
  /\ activeTab = "ANALYSIS"
  /\ researchQuery = <<>>
  /\ statusMessage = ""
  /\ isDragging = FALSE
  /\ clock = 0
  /\ pipelines = {}
  /\ researches = {}
  /\ runs = 1
  /\ submitted = <<>>
  /\ everReady = TRUE

\* The user looks at the record: switches tabs, types in the query box.
ViewNext ==
  \/ \E tab \in {"ANALYSIS", "RESEARCH"} : TabClick(tab)
  \/ \E value \in Queries : QueryChange(value)

ViewSpec == ViewInit /\ [][ViewNext]_vars

\* C22: the badge condition of an extractedData holds exactly when at least
\* one of its riskFactors has severity HIGH, and the badge is rendered
\* exactly then on the analysis tab: no riskFactors, or LOW and MEDIUM ones
\* only, never set it.
C22_HighRiskIffSomeHigh ==
  (docContext # Null /\ Has(docContext, "extractedData"))
    => LET riskFactors == docContext.extractedData.riskFactors
           high == {i \in 1..Len(riskFactors) :
                      riskFactors[i].severity = "HIGH"}
       IN /\ HighRisk(docContext.extractedData) <=> high # {}
          /\ HighRiskBadgeShown <=> (activeTab = "ANALYSIS" /\ high # {})

\* C22 witness: the badge is rendered for riskFactors whose second element
\* is the only one with severity HIGH.
C22_Witness ==
  /\ HighRiskBadgeShown
  /\ Len(docContext.extractedData.riskFactors) = 2
  /\ docContext.extractedData.riskFactors[1].severity = "LOW"
  /\ docContext.extractedData.riskFactors[2].severity = "HIGH"

=============================================================================
